---- MODULE Spec2Model ----
(***************************************************************************)
(* A model of arxiv_scraper.py: the paper database pipeline                *)
(* (load, fetch, merge, prune, save, render) and its pure functions        *)
(* merge_papers and prune_old_papers.                                      *)
(*                                                                         *)
(* A paper is a record [arxiv_id, published, updated].  The published      *)
(* string "YYYY-MM-DDTHH:MM:SSZ" is the pair <<day, tick>> of its date     *)
(* part and its time-of-day part; the code compares such strings as        *)
(* strings (merge_papers' sort) and parses them to datetimes               *)
(* (prune_old_papers), so both orders are modelled.  The updated string    *)
(* has the same fixed format and is only ever compared with >, so it is    *)
(* the number of its instant.                                              *)
(***************************************************************************)
EXTENDS Integers, Sequences, FiniteSets

VARIABLES
    pc,               \* the position of the call or of main
    existing_papers,  \* main: existing_papers / merge_papers' first argument
    new_papers,       \* main: new_papers / merge_papers' second argument
    merged_papers,    \* main: merged_papers / prune_old_papers' argument
    final_papers,     \* main: final_papers / prune_old_papers' result
    remerged,         \* merge_papers(merged_papers, [])
    now,              \* the reading of datetime.now(), in ticks
    max_age,          \* args.max_age / max_age_days
    days_back,        \* args.days_back
    store,            \* the database file papers.json: its state and content
    page,             \* the output file index.html: its state and content
    log,              \* the current run of main: its steps and the errors they print
    start_date,       \* search_arxiv: start_date
    all_papers,       \* search_arxiv: all_papers
    author_i,         \* search_arxiv: the author queries made so far
    tokens,           \* process_latex_text: the tokens the argument is made of
    processed,        \* process_latex_text(text)
    reprocessed,      \* process_latex_text(process_latex_text(text))
    dropped           \* history: the id and published value of the records prune
                      \* dropped in the earlier runs made under the current max_age

vars == <<pc, existing_papers, new_papers, merged_papers, final_papers,
          remerged, now, max_age, days_back, store, page, log, start_date,
          all_papers, author_i, dropped, tokens, processed, reprocessed>>

\* the variables only process_latex_text uses
latexOnly == <<tokens, processed, reprocessed>>

\* the variables only main uses
mainOnly == <<days_back, store, page, log, start_date, all_papers, author_i,
             dropped>>

\* a file that does not exist
NoFile == [state |-> "missing", data |-> <<>>]

(***************************************************************************)
(* Bounds and value domains                                                *)
(***************************************************************************)
\* the resolution of the time of day: ticks in one calendar day
TicksPerDay == 2
\* merge_papers is applied to at most this many papers, existing and new together
MaxPapers == 3
\* prune_old_papers is applied to lists of at most this length
MaxPruneLen == 2
\* the calendar days 0..MaxDay of the prune inputs
MaxDay == 3
\* the default of --max-age
DefaultMaxAge == 90

ArxivIds == {"2401.00001v1", "2401.00002v1", "2401.00003v1"}
UpdatedValues == 1..3

SeqsUpTo(S, n) == UNION {[1..k -> S] : k \in 0..n}

\* timestamps of two calendar days whose time-of-day order is the reverse
\* of their date order
MergePublished == {<<0, TicksPerDay - 1>>, <<1, 0>>}

MergeRecords ==
    [arxiv_id : ArxivIds, published : MergePublished, updated : UpdatedValues]

(***************************************************************************)
(* Strings and datetimes                                                   *)
(***************************************************************************)
\* str.__lt__ on two published strings of the fixed ISO format: the date
\* part decides, then the time part
StrLess(a, b) == a[1] < b[1] \/ (a[1] = b[1] /\ a[2] < b[2])

\* datetime.fromisoformat(published.replace('Z', '+00:00')).replace(tzinfo=None)
published_date(p) == p.published[1] * TicksPerDay + p.published[2]

\* timedelta(days=n)
timedelta(n) == n * TicksPerDay

\* the calendar day of a datetime
DayOf(t) == t \div TicksPerDay

\* the time of day of a datetime
TickOf(t) == t % TicksPerDay

(***************************************************************************)
(* Lists and dicts                                                         *)
(***************************************************************************)
RECURSIVE Reverse(_)
Reverse(s) == IF s = <<>> THEN <<>> ELSE Append(Reverse(Tail(s)), Head(s))

\* a dict keyed by arxiv_id is the sequence of its values in insertion
\* order; KeyIndex is the place of key k, 0 when k is not a key
KeyIndex(d, k) ==
    IF \E i \in 1..Len(d) : d[i].arxiv_id = k
    THEN CHOOSE i \in 1..Len(d) : d[i].arxiv_id = k
    ELSE 0

\* k in papers_dict
HasKey(d, k) == KeyIndex(d, k) # 0

\* papers_dict[k]
DictGet(d, k) == d[KeyIndex(d, k)]

\* papers_dict[paper.arxiv_id] = paper: a new key goes last, an old key
\* keeps its place and takes the new value
DictSet(d, paper) ==
    IF HasKey(d, paper.arxiv_id)
    THEN [d EXCEPT ![KeyIndex(d, paper.arxiv_id)] = paper]
    ELSE Append(d, paper)

\* {paper.arxiv_id: paper for paper in existing_papers}
RECURSIVE DictOfPapers(_, _)
DictOfPapers(d, papers) ==
    IF papers = <<>> THEN d
    ELSE DictOfPapers(DictSet(d, Head(papers)), Tail(papers))

\* the stable ascending sort by the published string: x goes after every
\* element whose key is not greater than its own
InsertAsc(sorted, x) ==
    LET n == Cardinality({i \in 1..Len(sorted) :
                            ~StrLess(x.published, sorted[i].published)})
    IN  SubSeq(sorted, 1, n) \o <<x>> \o SubSeq(sorted, n + 1, Len(sorted))

RECURSIVE StableSortAsc(_, _)
StableSortAsc(sorted, rest) ==
    IF rest = <<>> THEN sorted
    ELSE StableSortAsc(InsertAsc(sorted, Head(rest)), Tail(rest))

\* a faulty variant: sorted ascending, reverse=True forgotten
SortAscending(s) == StableSortAsc(<<>>, s)

\* a faulty variant: sorted ascending and then reversed, which reverses the ties
SortThenReverse(s) == Reverse(StableSortAsc(<<>>, s))

\* list.sort(key=lambda p: p.published, reverse=True): the list is reversed,
\* sorted stably ascending and reversed again, so equal keys keep their order
SortPublishedReverse(s) == Reverse(StableSortAsc(<<>>, Reverse(s)))

(***************************************************************************)
(* merge_papers                                                            *)
(***************************************************************************)
\* a faulty variant: the new paper is appended whenever it is kept
MergeStepAppend(d, new_paper) ==
    IF ~HasKey(d, new_paper.arxiv_id) THEN Append(d, new_paper)
    ELSE IF new_paper.updated > DictGet(d, new_paper.arxiv_id).updated
         THEN Append(d, new_paper)
         ELSE d

\* a faulty variant: a tie replaces the stored paper
MergeStepTie(d, new_paper) ==
    IF ~HasKey(d, new_paper.arxiv_id) THEN DictSet(d, new_paper)
    ELSE IF new_paper.updated >= DictGet(d, new_paper.arxiv_id).updated
         THEN DictSet(d, new_paper)
         ELSE d

\* a faulty variant: a stored paper is never replaced
MergeStepKeep(d, new_paper) ==
    IF ~HasKey(d, new_paper.arxiv_id) THEN DictSet(d, new_paper) ELSE d

\* a faulty variant: the published strings are compared, not the updated ones
MergeStepByPublished(d, new_paper) ==
    IF ~HasKey(d, new_paper.arxiv_id) THEN DictSet(d, new_paper)
    ELSE IF StrLess(DictGet(d, new_paper.arxiv_id).published, new_paper.published)
         THEN DictSet(d, new_paper)
         ELSE d

\* a faulty variant: the comparison of the updated values is turned around
MergeStepOlder(d, new_paper) ==
    IF ~HasKey(d, new_paper.arxiv_id) THEN DictSet(d, new_paper)
    ELSE IF new_paper.updated < DictGet(d, new_paper.arxiv_id).updated
         THEN DictSet(d, new_paper)
         ELSE d

\* the body of the loop over new_papers
MergeStep(d, new_paper) ==
    IF ~HasKey(d, new_paper.arxiv_id) THEN DictSet(d, new_paper)
    ELSE IF new_paper.updated > DictGet(d, new_paper.arxiv_id).updated
         THEN DictSet(d, new_paper)
         ELSE d

\* for new_paper in new_papers: ...
RECURSIVE MergeLoop(_, _)
MergeLoop(d, papers) ==
    IF papers = <<>> THEN d
    ELSE MergeLoop(MergeStep(d, Head(papers)), Tail(papers))

\* papers_dict when the loop has ended
papers_dict(existing, new) == MergeLoop(DictOfPapers(<<>>, existing), new)

merge_papers(existing, new) == SortPublishedReverse(papers_dict(existing, new))

(***************************************************************************)
(* prune_old_papers                                                        *)
(***************************************************************************)
\* cutoff_date = datetime.now() - timedelta(days=max_age_days)
cutoff_date(clock, max_age_days) == clock - timedelta(max_age_days)

\* a faulty variant: a paper published exactly at the cutoff is dropped
PruneStepStrict(pruned_papers, paper, cutoff) ==
    IF published_date(paper) > cutoff
    THEN Append(pruned_papers, paper)
    ELSE pruned_papers

\* a faulty variant: the cutoff is truncated to the start of its calendar day
PruneStepByDay(pruned_papers, paper, cutoff) ==
    IF DayOf(published_date(paper)) >= DayOf(cutoff)
    THEN Append(pruned_papers, paper)
    ELSE pruned_papers

\* a faulty variant: a kept paper is put first
PruneStepPrepend(pruned_papers, paper, cutoff) ==
    IF published_date(paper) >= cutoff
    THEN <<paper>> \o pruned_papers
    ELSE pruned_papers

\* a faulty variant: a paper is kept one day longer
PruneStepLenient(pruned_papers, paper, cutoff) ==
    IF published_date(paper) >= cutoff - timedelta(1)
    THEN Append(pruned_papers, paper)
    ELSE pruned_papers

\* the body of the loop over papers
PruneStep(pruned_papers, paper, cutoff) ==
    IF published_date(paper) >= cutoff
    THEN Append(pruned_papers, paper)
    ELSE pruned_papers

\* for paper in papers: ...
RECURSIVE PruneLoop(_, _, _)
PruneLoop(pruned_papers, papers, cutoff) ==
    IF papers = <<>> THEN pruned_papers
    ELSE PruneLoop(PruneStep(pruned_papers, Head(papers), cutoff),
                   Tail(papers), cutoff)

prune_old_papers(papers, max_age_days, clock) ==
    PruneLoop(<<>>, papers, cutoff_date(clock, max_age_days))

(***************************************************************************)
(* merge_papers applied to every existing list and every new list of       *)
(* MaxPapers papers together, then to its own result and no new paper      *)
(***************************************************************************)
InitMerge ==
    /\ pc = "merge_in"
    /\ \E ke \in 0..MaxPapers : \E kn \in 0..(MaxPapers - ke) :
          /\ existing_papers \in [1..ke -> MergeRecords]
          /\ new_papers \in [1..kn -> MergeRecords]
    /\ merged_papers = <<>>
    /\ final_papers = <<>>
    /\ remerged = <<>>
    /\ now = 0
    /\ max_age = 0
    /\ days_back = 0
    /\ store = NoFile
    /\ page = NoFile
    /\ log = <<>>
    /\ start_date = 0
    /\ all_papers = <<>>
    /\ author_i = 0
    /\ dropped = {}
    /\ tokens = <<>>
    /\ processed = <<>>
    /\ reprocessed = <<>>

MergeCall ==
    /\ pc = "merge_in"
    /\ merged_papers' = merge_papers(existing_papers, new_papers)
    /\ pc' = "merged"
    /\ UNCHANGED <<existing_papers, new_papers, final_papers, remerged, now,
                   max_age>>
    /\ UNCHANGED mainOnly
    /\ UNCHANGED latexOnly

MergeAgain ==
    /\ pc = "merged"
    /\ remerged' = merge_papers(merged_papers, <<>>)
    /\ pc' = "remerged"
    /\ UNCHANGED <<existing_papers, new_papers, merged_papers, final_papers,
                   now, max_age>>
    /\ UNCHANGED mainOnly
    /\ UNCHANGED latexOnly

NextMerge == MergeCall \/ MergeAgain

SpecMerge == InitMerge /\ [][NextMerge]_vars

(***************************************************************************)
(* prune_old_papers applied to every list of MaxPruneLen papers, at every  *)
(* clock reading and every maximum age of the domains below                *)
(***************************************************************************)
PruneDays == 0..MaxDay \cup {DefaultMaxAge + 10}

PruneRecords ==
    [arxiv_id : {"2401.00001v1"}, published : (0..MaxDay) \X (0..(TicksPerDay - 1)),
     updated : {1}]

InitPrune ==
    /\ pc = "prune_in"
    /\ merged_papers \in SeqsUpTo(PruneRecords, MaxPruneLen)
    /\ \E d \in PruneDays, t \in 0..(TicksPerDay - 1) : now = d * TicksPerDay + t
    /\ max_age \in 0..MaxDay \cup {DefaultMaxAge}
    /\ existing_papers = <<>>
    /\ new_papers = <<>>
    /\ final_papers = <<>>
    /\ remerged = <<>>
    /\ days_back = 0
    /\ store = NoFile
    /\ page = NoFile
    /\ log = <<>>
    /\ start_date = 0
    /\ all_papers = <<>>
    /\ author_i = 0
    /\ dropped = {}
    /\ tokens = <<>>
    /\ processed = <<>>
    /\ reprocessed = <<>>

PruneCall ==
    /\ pc = "prune_in"
    /\ final_papers' = prune_old_papers(merged_papers, max_age, now)
    /\ pc' = "pruned"
    /\ UNCHANGED <<existing_papers, new_papers, merged_papers, remerged, now,
                   max_age>>
    /\ UNCHANGED mainOnly
    /\ UNCHANGED latexOnly

NextPrune == PruneCall

SpecPrune == InitPrune /\ [][NextPrune]_vars

(***************************************************************************)
(* process_latex_text                                                      *)
(*                                                                         *)
(* A text is the sequence of its characters; a character outside ASCII is  *)
(* written by its code point ("U+03B1" is the Greek small letter alpha).   *)
(* Each call of re.sub is a rule applied by Sub, which scans the text from *)
(* left to right and replaces the matches that do not overlap.             *)
(***************************************************************************)
LowerCase ==
    {"a", "b", "c", "d", "e", "f", "g", "h", "i", "j", "k", "l", "m",
     "n", "o", "p", "q", "r", "s", "t", "u", "v", "w", "x", "y", "z"}

UpperCase ==
    {"A", "B", "C", "D", "E", "F", "G", "H", "I", "J", "K", "L", "M",
     "N", "O", "P", "Q", "R", "S", "T", "U", "V", "W", "X", "Y", "Z"}

\* [a-zA-Z]
AsciiLetters == LowerCase \cup UpperCase

\* the letters the Greek rules write, and the two letters of the fix of the
\* corrupted chi
GreekLetters ==
    {"U+03B1", "U+03B2", "U+03B3", "U+03B4", "U+03B5", "U+03B6",
     "U+03B7", "U+03B8", "U+03B9", "U+03BA", "U+03BB", "U+03BC",
     "U+03BD", "U+03BE", "U+03BF", "U+03C0", "U+03C1", "U+03C3",
     "U+03C4", "U+03C5", "U+03C6", "U+03C7", "U+03C8", "U+03C9",
     "U+0393", "U+0394", "U+0398", "U+039B", "U+039E", "U+03A0",
     "U+03A3", "U+03A5", "U+03A6", "U+03A7", "U+03A8", "U+03A9",
     "U+1E29"}
\* \w of a str pattern: letters, digits and the underscore; a combining mark
\* is not one
WordChars ==
    AsciiLetters \cup GreekLetters
    \cup {"0", "1", "2", "3", "4", "5", "6", "7", "8", "9", "_"}

\* \s
WhiteSpace == {" ", "\t", "\n"}

\* the characters that end a URL: [^\s<>"'()]
UrlStops == WhiteSpace \cup {"<", ">", "\"", "'", "(", ")"}

\* text[i:].startswith(pat)
StartsWith(text, i, pat) ==
    /\ i >= 1
    /\ i + Len(pat) - 1 <= Len(text)
    /\ SubSeq(text, i, i + Len(pat) - 1) = pat

\* the first position from i on that holds one of the characters, or
\* Len(text) + 1
FirstOf(text, i, chars) ==
    LET at == {j \in i..Len(text) : text[j] \in chars}
    IN  IF at = {} THEN Len(text) + 1
        ELSE CHOOSE j \in at : \A k \in at : j <= k

\* greek_map, in the order of the dict: the name of the command and the
\* letter written for it
greek_map ==
    <<<<<<"a", "l", "p", "h", "a">>, "U+03B1">>,
      <<<<"b", "e", "t", "a">>, "U+03B2">>,
      <<<<"g", "a", "m", "m", "a">>, "U+03B3">>,
      <<<<"d", "e", "l", "t", "a">>, "U+03B4">>,
      <<<<"e", "p", "s", "i", "l", "o", "n">>, "U+03B5">>,
      <<<<"z", "e", "t", "a">>, "U+03B6">>,
      <<<<"e", "t", "a">>, "U+03B7">>,
      <<<<"t", "h", "e", "t", "a">>, "U+03B8">>,
      <<<<"i", "o", "t", "a">>, "U+03B9">>,
      <<<<"k", "a", "p", "p", "a">>, "U+03BA">>,
      <<<<"l", "a", "m", "b", "d", "a">>, "U+03BB">>,
      <<<<"m", "u">>, "U+03BC">>,
      <<<<"n", "u">>, "U+03BD">>,
      <<<<"x", "i">>, "U+03BE">>,
      <<<<"o", "m", "i", "c", "r", "o", "n">>, "U+03BF">>,
      <<<<"p", "i">>, "U+03C0">>,
      <<<<"r", "h", "o">>, "U+03C1">>,
      <<<<"s", "i", "g", "m", "a">>, "U+03C3">>,
      <<<<"t", "a", "u">>, "U+03C4">>,
      <<<<"u", "p", "s", "i", "l", "o", "n">>, "U+03C5">>,
      <<<<"p", "h", "i">>, "U+03C6">>,
      <<<<"c", "h", "i">>, "U+03C7">>,
      <<<<"p", "s", "i">>, "U+03C8">>,
      <<<<"o", "m", "e", "g", "a">>, "U+03C9">>,
      <<<<"G", "a", "m", "m", "a">>, "U+0393">>,
      <<<<"D", "e", "l", "t", "a">>, "U+0394">>,
      <<<<"T", "h", "e", "t", "a">>, "U+0398">>,
      <<<<"L", "a", "m", "b", "d", "a">>, "U+039B">>,
      <<<<"X", "i">>, "U+039E">>,
      <<<<"P", "i">>, "U+03A0">>,
      <<<<"S", "i", "g", "m", "a">>, "U+03A3">>,
      <<<<"U", "p", "s", "i", "l", "o", "n">>, "U+03A5">>,
      <<<<"P", "h", "i">>, "U+03A6">>,
      <<<<"C", "h", "i">>, "U+03A7">>,
      <<<<"P", "s", "i">>, "U+03A8">>,
      <<<<"O", "m", "e", "g", "a">>, "U+03A9">>>>

\* \\alpha\b -> U+03B1, ...
GreekRules ==
    [i \in 1..Len(greek_map) |->
        [kind |-> "word", pat |-> <<"\\">> \o greek_map[i][1],
         pre |-> <<greek_map[i][2]>>, post |-> <<>>]]

\* accent_map, in the order of the dict: the character after the backslash
\* and the combining mark written after the argument
accent_map ==
    <<<<"'", "U+0301">>,
      <<"U+0060", "U+0300">>,
      <<"^", "U+0302">>,
      <<"\"", "U+0308">>,
      <<"~", "U+0303">>,
      <<"=", "U+0304">>,
      <<"u", "U+0306">>,
      <<"v", "U+030C">>,
      <<"c", "U+0327">>>>

\* for each accent \\'\{([^}]+)\} and then \\'([a-zA-Z])
AccentRules ==
    [i \in 1..(2 * Len(accent_map)) |->
        LET accent == accent_map[(i + 1) \div 2]
        IN  IF i % 2 = 1
            THEN [kind |-> "braced", pat |-> <<"\\", accent[1], "{">>,
                  pre |-> <<>>, post |-> <<accent[2]>>]
            ELSE [kind |-> "letter", pat |-> <<"\\", accent[1]>>,
                  pre |-> <<>>, post |-> <<accent[2]>>]]

\* \$[^$]*\\texttt\{[^}]*\}[^$]*\$ -> replace_texttt_in_math
TextttInMath ==
    [kind |-> "mathtt", pat |-> <<"\\", "t", "e", "x", "t", "t", "t", "{">>,
     pre |-> <<>>,
     post |-> <<>>]

\* inside replace_texttt_in_math: \\texttt\{([^}]+)\} -> \\text{\1}
TextttToText ==
    [kind |-> "braced", pat |-> <<"\\", "t", "e", "x", "t", "t", "t", "{">>,
     pre |-> <<"\\", "t", "e", "x", "t", "{">>,
     post |-> <<"}">>]

\* \\_ -> _
Underscore == [kind |-> "plain", pat |-> <<"\\", "_">>, pre |-> <<"_">>, post |-> <<>>]

\* \\% -> %
Percent == [kind |-> "plain", pat |-> <<"\\", "%">>, pre |-> <<"%">>, post |-> <<>>]

\* \\emph\{([^}]+)\} -> <em>\1</em>
Emph ==
    [kind |-> "braced", pat |-> <<"\\", "e", "m", "p", "h", "{">>,
     pre |-> <<"<", "e", "m", ">">>,
     post |-> <<"<", "/", "e", "m", ">">>]

\* \\textbf\{([^}]+)\} -> <strong>\1</strong>
Textbf ==
    [kind |-> "braced", pat |-> <<"\\", "t", "e", "x", "t", "b", "f", "{">>,
     pre |-> <<"<", "s", "t", "r", "o", "n", "g", ">">>,
     post |-> <<"<", "/", "s", "t", "r", "o", "n", "g", ">">>]

\* \\textit\{([^}]+)\} -> <em>\1</em>
Textit ==
    [kind |-> "braced", pat |-> <<"\\", "t", "e", "x", "t", "i", "t", "{">>,
     pre |-> <<"<", "e", "m", ">">>,
     post |-> <<"<", "/", "e", "m", ">">>]

\* \\textsc\{([^}]+)\} -> <span style=...>\1</span>
Textsc ==
    [kind |-> "braced", pat |-> <<"\\", "t", "e", "x", "t", "s", "c", "{">>,
     pre |-> <<"<", "s", "p", "a", "n", " ", "s", "t", "y", "l",
             "e", "=", "\"", "f", "o", "n", "t", "-", "v", "a",
             "r", "i", "a", "n", "t", ":", " ", "s", "m", "a",
             "l", "l", "-", "c", "a", "p", "s", ";", "\"", ">">>,
     post |-> <<"<", "/", "s", "p", "a", "n", ">">>]

\* \\texttt\{([^}]+)\} -> <code>\1</code>
Texttt ==
    [kind |-> "braced", pat |-> <<"\\", "t", "e", "x", "t", "t", "t", "{">>,
     pre |-> <<"<", "c", "o", "d", "e", ">">>,
     post |-> <<"<", "/", "c", "o", "d", "e", ">">>]

\* \\textrm\{([^}]+)\} -> <span style=...>\1</span>
Textrm ==
    [kind |-> "braced", pat |-> <<"\\", "t", "e", "x", "t", "r", "m", "{">>,
     pre |-> <<"<", "s", "p", "a", "n", " ", "s", "t", "y", "l",
             "e", "=", "\"", "f", "o", "n", "t", "-", "s", "t",
             "y", "l", "e", ":", " ", "n", "o", "r", "m", "a",
             "l", ";", "\"", ">">>,
     post |-> <<"<", "/", "s", "p", "a", "n", ">">>]

\* U+1E29 i -> U+03C7
CorruptedChiI == [kind |-> "plain", pat |-> <<"U+1E29", "i">>, pre |-> <<"U+03C7">>, post |-> <<>>]

\* U+1E29 -> U+03C7
CorruptedChi == [kind |-> "plain", pat |-> <<"U+1E29">>, pre |-> <<"U+03C7">>, post |-> <<>>]

\* url_pattern -> <a href="\1" target="_blank" rel="noopener">\1</a>
UrlRule ==
    [kind |-> "url", pat |-> <<"h", "t", "t", "p">>,
     pre |-> <<"<", "a", " ", "h", "r", "e", "f", "=", "\"">>,
     post |-> <<"<", "/", "a", ">">>]

\* the text between the two copies of the URL
UrlMiddle ==
    <<"\"", " ", "t", "a", "r", "g", "e", "t", "=", "\"", "_", "b",
      "l", "a", "n", "k", "\"", " ", "r", "e", "l", "=", "\"", "n",
      "o", "o", "p", "e", "n", "e", "r", "\"", ">">>

\* \$(<[^>]+>[^<]*</[^>]+>)\$ -> \1
MathAroundTag == [kind |-> "mathtag", pat |-> <<"$", "<">>, pre |-> <<>>, post |-> <<>>]

\* \$<code>([^<]*)</code>\$ -> <code>\1</code>
MathAroundCode ==
    [kind |-> "mathcode", pat |-> <<"$", "<", "c", "o", "d", "e", ">">>,
     pre |-> <<>>,
     post |-> <<"<", "/", "c", "o", "d", "e", ">", "$">>]

\* the end of the match of \$[^$]*\\texttt\{[^}]*\}[^$]*\$ that starts at i,
\* or 0: [^$]* is greedy, so the \texttt{ taken is the last one before the
\* next $ from which the rest of the pattern matches
TextttInMathEnd(text, i, pat) ==
    LET dollar == FirstOf(text, i + 1, {"$"})
        EndFrom(j) ==
            LET brace == FirstOf(text, j + Len(pat), {"}"})
                close == FirstOf(text, brace + 1, {"$"})
            IN  IF close <= Len(text) THEN close ELSE 0
        starts == {j \in (i + 1)..(dollar - 1) :
                      StartsWith(text, j, pat) /\ EndFrom(j) # 0}
    IN  IF text[i] # "$" \/ starts = {} THEN 0
        ELSE EndFrom(CHOOSE j \in starts : \A k \in starts : k <= j)

\* the end of the match of url_pattern that starts at i, or 0
UrlEnd(text, i) ==
    LET first == IF StartsWith(text, i, <<"h", "t", "t", "p", "s", ":", "/", "/">>)
                 THEN i + 8
                 ELSE IF StartsWith(text, i, <<"h", "t", "t", "p", ":", "/", "/">>)
                      THEN i + 7
                      ELSE 0
        last == FirstOf(text, first, UrlStops) - 1
    IN  IF \/ first = 0
           \/ last < first
           \/ StartsWith(text, i - 6, <<"h", "r", "e", "f", "=", "\"">>)
           \/ StartsWith(text, i - 6, <<"h", "r", "e", "f", "=", "'">>)
           \/ StartsWith(text, i - 5, <<"s", "r", "c", "=", "\"">>)
           \/ StartsWith(text, i - 5, <<"s", "r", "c", "=", "'">>)
        THEN 0
        ELSE last

\* the end of the match of \$(<[^>]+>[^<]*</[^>]+>)\$ that starts at i, or 0
MathAroundTagEnd(text, i, pat) ==
    LET open == FirstOf(text, i + 2, {">"})
        less == FirstOf(text, open + 1, {"<"})
        close == FirstOf(text, less + 2, {">"})
    IN  IF /\ StartsWith(text, i, pat)
           /\ open > i + 2
           /\ StartsWith(text, less, <<"<", "/">>)
           /\ close > less + 2
           /\ StartsWith(text, close, <<">", "$">>)
        THEN close + 1
        ELSE 0

\* the end of the match of \$<code>([^<]*)</code>\$ that starts at i, or 0
MathAroundCodeEnd(text, i, rule) ==
    LET less == FirstOf(text, i + Len(rule.pat), {"<"})
    IN  IF StartsWith(text, i, rule.pat) /\ StartsWith(text, less, rule.post)
        THEN less + Len(rule.post) - 1
        ELSE 0

\* the position where the match of a rule that starts at i ends, or 0 when
\* the rule does not match at i
MatchEnd(text, i, rule) ==
    LET after == i + Len(rule.pat)
    IN  CASE rule.kind = "plain" ->
               IF StartsWith(text, i, rule.pat) THEN after - 1 ELSE 0
          [] rule.kind = "word" ->
               IF /\ StartsWith(text, i, rule.pat)
                  /\ (after > Len(text) \/ text[after] \notin WordChars)
               THEN after - 1
               ELSE 0
          [] rule.kind = "braced" ->
               LET brace == FirstOf(text, after, {"}"})
               IN  IF /\ StartsWith(text, i, rule.pat)
                      /\ brace > after
                      /\ brace <= Len(text)
                   THEN brace
                   ELSE 0
          [] rule.kind = "letter" ->
               IF /\ StartsWith(text, i, rule.pat)
                  /\ after <= Len(text)
                  /\ text[after] \in AsciiLetters
               THEN after
               ELSE 0
          [] rule.kind = "spaces" ->
               IF text[i] \in WhiteSpace
               THEN FirstOf(text, i, {text[j] : j \in i..Len(text)} \ WhiteSpace) - 1
               ELSE 0
          [] rule.kind = "mathtt" -> TextttInMathEnd(text, i, rule.pat)
          [] rule.kind = "url" -> UrlEnd(text, i)
          [] rule.kind = "mathtag" -> MathAroundTagEnd(text, i, rule.pat)
          [] rule.kind = "mathcode" -> MathAroundCodeEnd(text, i, rule)

RECURSIVE Sub(_, _, _)

\* what is written for the match text[i..e] of a rule
Replacement(text, i, e, rule) ==
    CASE rule.kind \in {"plain", "word", "spaces"} -> rule.pre
      [] rule.kind = "braced" ->
           rule.pre \o SubSeq(text, i + Len(rule.pat), e - 1) \o rule.post
      [] rule.kind = "letter" -> <<text[e]>> \o rule.post
      [] rule.kind = "mathtt" -> Sub(SubSeq(text, i, e), 1, TextttToText)
      [] rule.kind = "url" ->
           rule.pre \o SubSeq(text, i, e) \o UrlMiddle \o SubSeq(text, i, e)
           \o rule.post
      [] rule.kind \in {"mathtag", "mathcode"} -> SubSeq(text, i + 1, e - 1)

\* re.sub(pattern, repl, text), from position i on: the text up to the
\* leftmost match, what is written for the match, and the same for the rest
Sub(text, i, rule) ==
    LET hits == {j \in i..Len(text) : MatchEnd(text, j, rule) # 0}
    IN  IF hits = {} THEN SubSeq(text, i, Len(text))
        ELSE LET j == CHOOSE h \in hits : \A k \in hits : h <= k
                 e == MatchEnd(text, j, rule)
             IN  SubSeq(text, i, j - 1) \o Replacement(text, j, e, rule)
                 \o Sub(text, e + 1, rule)

\* the calls of re.sub in the order of the function
LatexRules ==
    GreekRules \o AccentRules
    \o <<TextttInMath, Underscore, Percent, Emph, Textbf, Textit, Textsc,
         Texttt, Textrm, CorruptedChiI, CorruptedChi, UrlRule, MathAroundTag,
         MathAroundCode>>

\* the text after the calls from the first-th to the last-th
RECURSIVE ApplyRules(_, _, _)
ApplyRules(text, first, last) ==
    IF first = last THEN Sub(text, 1, LatexRules[first])
    ELSE LET middle == (first + last) \div 2
             half == ApplyRules(text, first, middle)
         IN  IF half = text THEN ApplyRules(text, middle + 1, last)
             ELSE ApplyRules(half, middle + 1, last)

process_latex_text(text) == ApplyRules(text, 1, Len(LatexRules))

\* the tokens a text is made of
MaxTokens == 3

\* a plain word, a space, a Greek command, a formatting command with one
\* argument, a bare URL
CommonTokens ==
    {<<"g", "o">>,
     <<" ">>,
     <<"\\", "a", "l", "p", "h", "a">>,
     <<"\\", "e", "m", "p", "h", "{", "x", "}">>,
     <<"h", "t", "t", "p", ":", "/", "/", "a", ".", "b">>}

\* commands that are no Greek, accent or formatting command
UnknownCommands ==
    {<<"\\", "c", "d", "o", "t">>,
     <<"\\", "v", "e", "c">>,
     <<"\\", "c", "i", "t", "e">>,
     <<"\\", "v", "a", "r", "p", "h", "i">>,
     <<"\\", "f", "r", "a", "c">>}

\* a math delimiter and \texttt, which is rewritten inside math
MathTokens ==
    {<<"$">>,
     <<"\\", "t", "e", "x", "t", "t", "t", "{", "c", "}">>}

LatexTokens == CommonTokens \cup UnknownCommands \cup MathTokens

\* the text made of a sequence of tokens
RECURSIVE TextOf(_)
TextOf(toks) == IF toks = <<>> THEN <<>> ELSE Head(toks) \o TextOf(Tail(toks))

InitLatex ==
    /\ pc = "latex_in"
    /\ tokens \in SeqsUpTo(LatexTokens, MaxTokens)
    /\ processed = <<>>
    /\ reprocessed = <<>>
    /\ existing_papers = <<>>
    /\ new_papers = <<>>
    /\ merged_papers = <<>>
    /\ final_papers = <<>>
    /\ remerged = <<>>
    /\ now = 0
    /\ max_age = DefaultMaxAge
    /\ days_back = 0
    /\ store = NoFile
    /\ page = NoFile
    /\ log = <<>>
    /\ start_date = 0
    /\ all_papers = <<>>
    /\ author_i = 0
    /\ dropped = {}

\* process_latex_text(text)
ProcessCall ==
    /\ pc = "latex_in"
    /\ processed' = process_latex_text(TextOf(tokens))
    /\ pc' = "latex_out"
    /\ UNCHANGED <<tokens, reprocessed, existing_papers, new_papers,
                   merged_papers, final_papers, remerged, now, max_age>>
    /\ UNCHANGED mainOnly

\* process_latex_text of what the first call returned
ProcessAgain ==
    /\ pc = "latex_out"
    /\ reprocessed' = process_latex_text(processed)
    /\ pc' = "latex_again"
    /\ UNCHANGED <<tokens, processed, existing_papers, new_papers,
                   merged_papers, final_papers, remerged, now, max_age>>
    /\ UNCHANGED mainOnly

NextLatex == ProcessCall \/ ProcessAgain

SpecLatex == InitLatex /\ [][NextLatex]_vars

(***************************************************************************)
(* The database file                                                       *)
(***************************************************************************)
\* str.strip()
Strip(text) ==
    LET keep == {j \in 1..Len(text) : text[j] \notin WhiteSpace}
    IN  IF keep = {} THEN <<>>
        ELSE SubSeq(text, CHOOSE j \in keep : \A k \in keep : j <= k,
                    CHOOSE j \in keep : \A k \in keep : k <= j)

\* ArxivPaper.__init__: title and abstract are stripped
ArxivPaper(title, authors, abstract, arxiv_id, published, updated, categories) ==
    [title |-> Strip(title), authors |-> authors, abstract |-> Strip(abstract),
     arxiv_id |-> arxiv_id, published |-> published, updated |-> updated,
     categories |-> categories]

\* a faulty variant: the text fields are written with their LaTeX processed
to_dict_processed(paper) ==
    [title |-> process_latex_text(paper.title), authors |-> paper.authors,
     abstract |-> process_latex_text(paper.abstract),
     arxiv_id |-> paper.arxiv_id, published |-> paper.published,
     updated |-> paper.updated, categories |-> paper.categories]

\* ArxivPaper.to_dict
to_dict(paper) ==
    [title |-> paper.title, authors |-> paper.authors,
     abstract |-> paper.abstract, arxiv_id |-> paper.arxiv_id,
     published |-> paper.published, updated |-> paper.updated,
     categories |-> paper.categories]

\* ArxivPaper.from_dict
from_dict(data) ==
    ArxivPaper(data.title, data.authors, data.abstract, data.arxiv_id,
               data.published, data.updated, data.categories)

\* load_papers_database: no file gives [], and so does a file that cannot be
\* read or parsed (readable is FALSE when open or read raises)
load_papers_database(file, readable) ==
    IF file.state = "missing" THEN <<>>
    ELSE IF file.state = "ok" /\ readable
         THEN [i \in 1..Len(file.data) |-> from_dict(file.data[i])]
         ELSE <<>>

\* what load_papers_database prints
load_message(file, readable) ==
    IF file.state = "missing" THEN "not_found"
    ELSE IF file.state = "ok" /\ readable THEN "loaded" ELSE "load_error"

\* a faulty variant: the file is opened in append mode
save_papers_append(papers, file, outcome) ==
    IF outcome = "ok"
    THEN [state |-> "ok",
          data |-> file.data \o [i \in 1..Len(papers) |-> to_dict(papers[i])]]
    ELSE file

\* save_papers_database: open(database_file, 'w') truncates the file and
\* json.dump writes the whole list; when open raises the file is as it was,
\* when the write raises the file is left cut short; the error is printed
save_papers_database(papers, file, outcome) ==
    IF outcome = "ok"
    THEN [state |-> "ok", data |-> [i \in 1..Len(papers) |-> to_dict(papers[i])]]
    ELSE IF outcome = "write_failed"
         THEN [state |-> "corrupt", data |-> <<>>]
         ELSE file

SaveOutcomes == {"ok", "open_failed", "write_failed"}

\* what save_papers_database prints
save_message(outcome) == IF outcome = "ok" THEN "saved" ELSE "save_error"

(***************************************************************************)
(* search_arxiv and fetch_papers_from_query                                *)
(***************************************************************************)
\* the author queries of a run
NumAuthors == 1
\* the entries of one response
MaxEntries == 2

\* re.sub(r'\s+', ' ', text)
WhitespaceRun == [kind |-> "spaces", pat |-> <<>>, pre |-> <<" ">>, post |-> <<>>]

\* the fields of an <entry>; authors and categories are the same everywhere
Entry(title, abstract, arxiv_id, published, updated) ==
    [title |-> title, authors |-> <<"A">>, abstract |-> abstract,
     arxiv_id |-> arxiv_id, published |-> published, updated |-> updated,
     categories |-> <<"gr-qc">>]

\* the papers of the feed: one paper in two states of its updated value and
\* title, the same id under another published value, and a second paper
\* whose abstract holds a URL
FeedRecords ==
    {Entry(<<" ", "\\", "m", "u">>, <<"a">>,
           "2401.00001v1", <<0, TicksPerDay - 1>>, 1),
     Entry(<<"\\", "n", "u">>, <<"a">>,
           "2401.00001v1", <<0, TicksPerDay - 1>>, 2),
     Entry(<<"\\", "n", "u">>, <<"a">>,
           "2401.00001v1", <<1, 0>>, 2),
     Entry(<<"g", "o">>, <<"h", "t", "t", "p", ":", "/", "/", "a", ".", "b">>,
           "2401.00002v1", <<1, 0>>, 1)}

\* an <entry> of the feed: one that parses to a paper, or one whose parsing
\* raises
FeedEntries ==
    [valid : {TRUE}, paper : FeedRecords]
    \cup {[valid |-> FALSE,
           paper |-> Entry(<<"g", "o">>, <<"a">>, "2401.00001v1", <<0, 0>>, 1)]}

\* the paper made of the fields of an entry: the whitespace of title and
\* abstract is cleaned and the constructor strips them
ParseEntry(fields) ==
    ArxivPaper(Sub(fields.title, 1, WhitespaceRun), fields.authors,
               Sub(fields.abstract, 1, WhitespaceRun), fields.arxiv_id,
               fields.published, fields.updated, fields.categories)

\* what a query gets: a failed request, a response that is no XML, or a feed
Responses ==
    {[status |-> "http_error", entries |-> <<>>],
     [status |-> "xml_error", entries |-> <<>>]}
    \cup [status : {"ok"}, entries : SeqsUpTo(FeedEntries, MaxEntries)]

\* a faulty variant: the date check is left out
EntryStepNoFilter(papers, entry, start) ==
    IF ~entry.valid THEN papers ELSE Append(papers, ParseEntry(entry.paper))

\* a faulty variant: what was read of a raising entry is kept
EntryStepKeepPartial(papers, entry, start) ==
    IF published_date(entry.paper) >= start
    THEN Append(papers, ParseEntry(entry.paper))
    ELSE papers

\* the body of the loop over entries
EntryStep(papers, entry, start) ==
    IF ~entry.valid THEN papers
    ELSE IF published_date(entry.paper) >= start
         THEN Append(papers, ParseEntry(entry.paper))
         ELSE papers

RECURSIVE EntryLoop(_, _, _)
EntryLoop(papers, entries, start) ==
    IF entries = <<>> THEN papers
    ELSE EntryLoop(EntryStep(papers, Head(entries), start), Tail(entries), start)

fetch_papers_from_query(resp, start) ==
    IF resp.status # "ok" THEN <<>>
    ELSE EntryLoop(<<>>, resp.entries, start)

\* what a failed query prints: "Error fetching from arXiv" or "Error parsing
\* XML response"; the per-entry prints are not kept
fetch_messages(resp, start) ==
    IF resp.status # "ok" THEN <<resp.status>> ELSE <<>>

\* for paper in keyword_papers: if paper.arxiv_id not in seen_arxiv_ids: ...
\* (seen_arxiv_ids is the set of the ids of all_papers)
RECURSIVE AppendUnseen(_, _)
AppendUnseen(all, papers) ==
    IF papers = <<>> THEN all
    ELSE AppendUnseen(IF HasKey(all, Head(papers).arxiv_id) THEN all
                      ELSE Append(all, Head(papers)),
                      Tail(papers))

(***************************************************************************)
(* generate_html                                                           *)
(***************************************************************************)
\* <h1>Numerical Relativity Papers</h1>
Heading == [tag |-> "h1", arxiv_id |-> "", title |-> <<>>, abstract |-> <<>>]

\* <div class="no-papers">
Placeholder ==
    [tag |-> "no-papers", arxiv_id |-> "", title |-> <<>>, abstract |-> <<>>]

\* <footer class="footer">
Footer == [tag |-> "footer", arxiv_id |-> "", title |-> <<>>, abstract |-> <<>>]

\* the titles and abstracts of the papers of the feed
FeedTexts ==
    {ParseEntry(fields).title : fields \in FeedRecords}
    \cup {ParseEntry(fields).abstract : fields \in FeedRecords}

\* process_latex_text on the texts of the feed, computed once
Processed == [text \in FeedTexts |-> process_latex_text(text)]

\* <article class="paper"> of one paper, linking to paper.arxiv_url: the
\* title and the abstract are written with their LaTeX processed
Article(paper) ==
    [tag |-> "article", arxiv_id |-> paper.arxiv_id,
     title |-> Processed[paper.title], abstract |-> Processed[paper.abstract]]

\* a faulty variant: the placeholder block is always emitted
PageBodyWithPlaceholder(papers) ==
    <<Placeholder>> \o [i \in 1..Len(papers) |-> Article(papers[i])]

\* the content of <main>: the placeholder block, or one article per paper
PageBody(papers) ==
    IF papers = <<>> THEN <<Placeholder>>
    ELSE [i \in 1..Len(papers) |-> Article(papers[i])]

\* the elements of the page, in document order
generate_html(papers) == <<Heading>> \o PageBody(papers) \o <<Footer>>

(***************************************************************************)
(* main, run after run                                                     *)
(***************************************************************************)
\* the clock reads FirstNow..MaxNow; now is its last reading
FirstNow == 2
MaxNow == 4

\* datetime.now(): not before the last reading
ClockReadings == now..MaxNow

\* the values of --max-age and --days-back: a lookback shorter and a
\* lookback longer than the retention
MainArgs == {[max_age |-> 2, days_back |-> 1], [max_age |-> 1, days_back |-> 2]}

Init ==
    /\ pc = "start"
    /\ store = NoFile
    /\ page = NoFile
    /\ now = FirstNow
    /\ \E args \in MainArgs : max_age = args.max_age /\ days_back = args.days_back
    /\ log = <<>>
    /\ existing_papers = <<>>
    /\ new_papers = <<>>
    /\ merged_papers = <<>>
    /\ final_papers = <<>>
    /\ remerged = <<>>
    /\ start_date = 0
    /\ all_papers = <<>>
    /\ author_i = 0
    /\ dropped = {}
    /\ tokens = <<>>
    /\ processed = <<>>
    /\ reprocessed = <<>>

\* existing_papers = load_papers_database(args.database)
Load ==
    /\ pc = "start"
    /\ \E readable \in BOOLEAN :
          /\ existing_papers' = load_papers_database(store, readable)
          /\ log' = log \o <<"load", load_message(store, readable)>>
    /\ pc' = "loaded"
    /\ UNCHANGED <<new_papers, merged_papers, final_papers, remerged, now,
                   max_age, days_back, store, page, start_date,
                   all_papers, author_i, dropped, tokens, processed, reprocessed>>
    /\ UNCHANGED latexOnly

\* search_arxiv to the end of the keyword query; the sort and the return
\* follow when there is no author to search for
SearchKeyword ==
    /\ pc = "loaded"
    /\ \E got \in Responses, clock \in ClockReadings :
          LET start == clock - timedelta(days_back)
              found == AppendUnseen(<<>>, fetch_papers_from_query(got, start))
          IN  /\ now' = clock
              /\ start_date' = start
              /\ IF NumAuthors = 0
                 THEN /\ new_papers' = SortPublishedReverse(found)
                      /\ all_papers' = <<>>
                      /\ pc' = "fetched"
                 ELSE /\ all_papers' = found
                      /\ pc' = "authors"
                      /\ UNCHANGED new_papers
              /\ log' = log \o <<"fetch">> \o fetch_messages(got, start)
    /\ author_i' = 0
    /\ UNCHANGED <<existing_papers, merged_papers, final_papers, remerged,
                   max_age, days_back, store, page, dropped>>
    /\ UNCHANGED latexOnly

\* one round of the loop over target_authors; the sort and the return follow
\* the last one
SearchAuthor ==
    /\ pc = "authors"
    /\ \E got \in Responses :
          LET found == AppendUnseen(all_papers,
                                    fetch_papers_from_query(got, start_date))
          IN  /\ log' = log \o fetch_messages(got, start_date)
              /\ IF author_i + 1 = NumAuthors
                 THEN /\ new_papers' = SortPublishedReverse(found)
                      /\ all_papers' = <<>>
                      /\ author_i' = 0
                      /\ pc' = "fetched"
                 ELSE /\ all_papers' = found
                      /\ author_i' = author_i + 1
                      /\ pc' = "authors"
                      /\ UNCHANGED new_papers
    /\ UNCHANGED <<existing_papers, merged_papers, final_papers, remerged, now,
                   max_age, days_back, store, page, start_date,
                   dropped>>
    /\ UNCHANGED latexOnly

\* merged_papers = merge_papers(existing_papers, new_papers)
Merge ==
    /\ pc = "fetched"
    /\ merged_papers' = merge_papers(existing_papers, new_papers)
    /\ log' = Append(log, "merge")
    /\ pc' = "merged_main"
    /\ UNCHANGED <<existing_papers, new_papers, final_papers, remerged, now,
                   max_age, days_back, store, page, start_date,
                   all_papers, author_i, dropped, tokens, processed, reprocessed>>
    /\ UNCHANGED latexOnly

\* final_papers = prune_old_papers(merged_papers, args.max_age)
Prune ==
    /\ pc = "merged_main"
    /\ \E clock \in ClockReadings :
          /\ now' = clock
          /\ final_papers' = prune_old_papers(merged_papers, max_age, clock)
    /\ log' = Append(log, "prune")
    /\ pc' = "pruned_main"
    /\ UNCHANGED <<existing_papers, new_papers, merged_papers, remerged,
                   max_age, days_back, store, page, start_date,
                   all_papers, author_i, dropped, tokens, processed, reprocessed>>
    /\ UNCHANGED latexOnly

\* save_papers_database(final_papers, args.database)
Save ==
    /\ pc = "pruned_main"
    /\ \E outcome \in SaveOutcomes :
          /\ store' = save_papers_database(final_papers, store, outcome)
          /\ log' = log \o <<"persist", save_message(outcome)>>
    /\ pc' = "saved"
    /\ UNCHANGED <<existing_papers, new_papers, merged_papers, final_papers,
                   remerged, now, max_age, days_back, page, start_date,
                   all_papers, author_i, dropped, tokens, processed, reprocessed>>
    /\ UNCHANGED latexOnly

\* generate_html(final_papers, args.output)
Render ==
    /\ pc = "saved"
    /\ page' = [state |-> "ok", data |-> generate_html(final_papers)]
    /\ log' = Append(log, "render")
    /\ pc' = "done"
    /\ UNCHANGED <<existing_papers, new_papers, merged_papers, final_papers,
                   remerged, now, max_age, days_back, store, start_date,
                   all_papers, author_i, dropped, tokens, processed, reprocessed>>
    /\ UNCHANGED latexOnly

\* the id and published value of the records of a list that are not in another
NotIn(papers, kept) ==
    {[arxiv_id |-> papers[i].arxiv_id, published |-> papers[i].published] :
        i \in {j \in 1..Len(papers) :
                  \A k \in 1..Len(kept) : kept[k] # papers[j]}}

\* the next invocation of the script, with its own arguments and locals
NewRun ==
    /\ pc = "done"
    /\ \E args \in MainArgs : max_age' = args.max_age /\ days_back' = args.days_back
    /\ dropped' = IF max_age' = max_age
                  THEN dropped \cup NotIn(merged_papers, final_papers)
                  ELSE {}
    /\ log' = <<>>
    /\ existing_papers' = <<>>
    /\ new_papers' = <<>>
    /\ merged_papers' = <<>>
    /\ final_papers' = <<>>
    /\ start_date' = 0
    /\ pc' = "start"
    /\ UNCHANGED <<remerged, now, store, page, all_papers, author_i>>
    /\ UNCHANGED latexOnly

Next ==
    \/ Load
    \/ SearchKeyword
    \/ SearchAuthor
    \/ Merge
    \/ Prune
    \/ Save
    \/ Render
    \/ NewRun

Spec == Init /\ [][Next]_vars

(***************************************************************************)
(* Predicates of the claims                                                *)
(***************************************************************************)
Contains(s, r) == \E i \in 1..Len(s) : s[i] = r

UniqueIds(s) ==
    \A i, j \in 1..Len(s) : i # j => s[i].arxiv_id # s[j].arxiv_id

\* ordered by the published string, descending
SortedDesc(s) ==
    \A i \in 1..(Len(s) - 1) : ~StrLess(s[i].published, s[i + 1].published)

RECURSIVE IsSubseq(_, _)
IsSubseq(a, b) ==
    IF a = <<>> THEN TRUE
    ELSE IF b = <<>> THEN FALSE
    ELSE IF Head(a) = Head(b) THEN IsSubseq(Tail(a), Tail(b))
    ELSE IsSubseq(a, Tail(b))

\* the new papers that carry the id k
NewWithId(k) == {i \in 1..Len(new_papers) : new_papers[i].arxiv_id = k}

(***************************************************************************)
(* C1..C4, C7, C9: merge_papers (SpecMerge)                                *)
(***************************************************************************)
\* C1: the list merge_papers returns holds no two records with the same
\* arxiv_id, whatever the existing list and the new list are (repeated ids
\* in either included).
C1_NoDuplicateIds ==
    pc = "merged" => UniqueIds(merged_papers)

C1_Witness ==
    /\ pc = "merged"
    /\ \E i, j \in 1..Len(new_papers) :
          /\ i < j
          /\ new_papers[i].arxiv_id = new_papers[j].arxiv_id
          /\ \E e \in 1..Len(existing_papers) :
                existing_papers[e].arxiv_id = new_papers[i].arxiv_id
    /\ Len(merged_papers) = 1

\* C2 as stated: whenever a new paper r and an existing paper of the same id
\* with a strictly smaller updated value are given, the result contains r.
C2_Original ==
    (pc = "merged" /\ UniqueIds(existing_papers)) =>
        \A i \in 1..Len(new_papers), e \in 1..Len(existing_papers) :
            (/\ existing_papers[e].arxiv_id = new_papers[i].arxiv_id
             /\ existing_papers[e].updated < new_papers[i].updated)
            => Contains(merged_papers, new_papers[i])

\* C2, amended: with unique existing ids, a new paper r that is fresher than
\* the existing paper of its id is in the result provided no other new paper
\* of that id has a greater updated value, or an equal one earlier in the
\* list; in every case the result's record of that id is a new paper whose
\* updated value is at least r's.
C2_Freshness ==
    (pc = "merged" /\ UniqueIds(existing_papers)) =>
        \A i \in 1..Len(new_papers), e \in 1..Len(existing_papers) :
            (/\ existing_papers[e].arxiv_id = new_papers[i].arxiv_id
             /\ existing_papers[e].updated < new_papers[i].updated)
            =>
            /\ \E m \in 1..Len(merged_papers) :
                  /\ merged_papers[m].arxiv_id = new_papers[i].arxiv_id
                  /\ merged_papers[m].updated >= new_papers[i].updated
                  /\ Contains(new_papers, merged_papers[m])
            /\ (\A j \in NewWithId(new_papers[i].arxiv_id) :
                   \/ new_papers[j].updated < new_papers[i].updated
                   \/ (new_papers[j].updated = new_papers[i].updated /\ j >= i))
               => Contains(merged_papers, new_papers[i])

C2_Witness ==
    /\ pc = "merged"
    /\ UniqueIds(existing_papers)
    /\ \E i, j \in 1..Len(new_papers), e \in 1..Len(existing_papers) :
          /\ i < j
          /\ existing_papers[e].arxiv_id = new_papers[i].arxiv_id
          /\ new_papers[j].arxiv_id = new_papers[i].arxiv_id
          /\ existing_papers[e].updated < new_papers[i].updated
          /\ new_papers[i].updated < new_papers[j].updated
          /\ Contains(merged_papers, new_papers[j])
          /\ ~Contains(merged_papers, new_papers[i])

\* C3 as stated: whenever a new paper r and an existing paper e of the same
\* id with e.updated >= r.updated are given, the result contains e.
C3_Original ==
    (pc = "merged" /\ UniqueIds(existing_papers)) =>
        \A i \in 1..Len(new_papers), e \in 1..Len(existing_papers) :
            (/\ existing_papers[e].arxiv_id = new_papers[i].arxiv_id
             /\ existing_papers[e].updated >= new_papers[i].updated)
            => Contains(merged_papers, existing_papers[e])

\* C3, amended: with unique existing ids, an existing paper e whose id occurs
\* among the new papers is in the result unchanged exactly when no new paper
\* of that id has an updated value greater than e's (a tie keeps e).
C3_Staleness ==
    (pc = "merged" /\ UniqueIds(existing_papers)) =>
        \A e \in 1..Len(existing_papers) :
            NewWithId(existing_papers[e].arxiv_id) # {} =>
                (Contains(merged_papers, existing_papers[e])
                 <=> \A j \in NewWithId(existing_papers[e].arxiv_id) :
                        new_papers[j].updated <= existing_papers[e].updated)

C3_Witness ==
    /\ pc = "merged"
    /\ UniqueIds(existing_papers)
    /\ \E i \in 1..Len(new_papers), e \in 1..Len(existing_papers) :
          /\ existing_papers[e].arxiv_id = new_papers[i].arxiv_id
          /\ existing_papers[e].updated = new_papers[i].updated
          /\ existing_papers[e] # new_papers[i]
          /\ Contains(merged_papers, existing_papers[e])
          /\ ~Contains(merged_papers, new_papers[i])

\* C4: merging the result of a merge with no new paper returns the same
\* sequence: the same records in the same order, ties of published included.
C4_MergeIdempotent ==
    pc = "remerged" => remerged = merged_papers

C4_Witness ==
    /\ pc = "remerged"
    /\ new_papers # <<>>
    /\ \E i \in 1..(Len(merged_papers) - 1) :
          /\ merged_papers[i].published = merged_papers[i + 1].published
          /\ merged_papers[i] # merged_papers[i + 1]

\* C7: the list merge_papers returns is ordered by published descending, for
\* every existing list in any order and every new list.
C7_SortedByPublished ==
    pc = "merged" => SortedDesc(merged_papers)

C7_Witness ==
    /\ pc = "merged"
    /\ ~SortedDesc(existing_papers)
    /\ new_papers # <<>>
    /\ Len(merged_papers) = 3
    /\ \E i \in 1..(Len(merged_papers) - 1) :
          StrLess(merged_papers[i + 1].published, merged_papers[i].published)

\* C9 as stated: every id of the existing list that is in the result has
\* there the published value of its existing record.
C9_Original ==
    (pc = "merged" /\ UniqueIds(existing_papers)) =>
        \A e \in 1..Len(existing_papers), m \in 1..Len(merged_papers) :
            merged_papers[m].arxiv_id = existing_papers[e].arxiv_id
            => merged_papers[m].published = existing_papers[e].published

\* C9, amended: with unique existing ids, the result's record of an existing
\* id has the existing published value unless a new paper of that id with a
\* strictly greater updated value and another published value replaced the
\* existing record; merge_papers does not compare published values.
C9_PublishedKept ==
    (pc = "merged" /\ UniqueIds(existing_papers)) =>
        \A e \in 1..Len(existing_papers), m \in 1..Len(merged_papers) :
            (/\ merged_papers[m].arxiv_id = existing_papers[e].arxiv_id
             /\ merged_papers[m].published # existing_papers[e].published)
            => /\ Contains(new_papers, merged_papers[m])
               /\ merged_papers[m].updated > existing_papers[e].updated

C9_Witness ==
    /\ pc = "merged"
    /\ UniqueIds(existing_papers)
    /\ \E e \in 1..Len(existing_papers), i \in 1..Len(new_papers) :
          /\ new_papers[i].arxiv_id = existing_papers[e].arxiv_id
          /\ new_papers[i].published # existing_papers[e].published
          /\ new_papers[i].updated <= existing_papers[e].updated
          /\ Contains(merged_papers, existing_papers[e])

(***************************************************************************)
(* C5, C6, C8: prune_old_papers (SpecPrune)                                *)
(***************************************************************************)
\* now - published <= max_age_days, in ticks
WithinAge(paper) == now - published_date(paper) <= timedelta(max_age)

\* C5: prune_old_papers returns exactly the input records with
\* published >= now - max_age_days, that is now - published <= max_age_days;
\* a record published exactly at the cutoff is kept, one published 100 days
\* ago is dropped when max_age_days is 90.
C5_Retention ==
    pc = "pruned" =>
        /\ final_papers = SelectSeq(merged_papers, WithinAge)
        /\ \A i \in 1..Len(merged_papers) :
              /\ published_date(merged_papers[i]) = now - timedelta(max_age)
                 => Contains(final_papers, merged_papers[i])
              /\ (/\ max_age = DefaultMaxAge
                  /\ now - published_date(merged_papers[i])
                        = timedelta(DefaultMaxAge + 10))
                 => ~Contains(final_papers, merged_papers[i])

C5_Witness ==
    /\ pc = "pruned"
    /\ max_age > 0
    /\ Len(merged_papers) = 2
    /\ published_date(merged_papers[1]) = now - timedelta(max_age)
    /\ published_date(merged_papers[2]) = now - timedelta(max_age) - 1
    /\ final_papers = <<merged_papers[1]>>

\* C6 as stated: two records published on the same calendar day are both
\* retained or both dropped.
C6_Original ==
    pc = "pruned" =>
        \A i, j \in 1..Len(merged_papers) :
            merged_papers[i].published[1] = merged_papers[j].published[1]
            => (Contains(final_papers, merged_papers[i])
                <=> Contains(final_papers, merged_papers[j]))

\* C6, amended: the cutoff is now minus a whole number of days and keeps
\* now's time of day; a record is retained iff its day is after the cutoff's
\* day, or is the cutoff's day with a time of day not before the cutoff's.
\* Two records of one calendar day are treated alike unless that day is the
\* cutoff's.
C6_CutoffKeepsTimeOfDay ==
    pc = "pruned" =>
        LET cutoff == now - timedelta(max_age) IN
        /\ TickOf(cutoff) = TickOf(now)
        /\ DayOf(cutoff) = DayOf(now) - max_age
        /\ \A i \in 1..Len(merged_papers) :
              Contains(final_papers, merged_papers[i])
              <=> \/ merged_papers[i].published[1] > DayOf(cutoff)
                  \/ /\ merged_papers[i].published[1] = DayOf(cutoff)
                     /\ merged_papers[i].published[2] >= TickOf(cutoff)
        /\ \A i, j \in 1..Len(merged_papers) :
              (/\ merged_papers[i].published[1] = merged_papers[j].published[1]
               /\ merged_papers[i].published[1] # DayOf(cutoff))
              => (Contains(final_papers, merged_papers[i])
                  <=> Contains(final_papers, merged_papers[j]))

C6_Witness ==
    /\ pc = "pruned"
    /\ Len(merged_papers) = 2
    /\ merged_papers[1].published[1] = merged_papers[2].published[1]
    /\ merged_papers[1].published[1] = DayOf(now - timedelta(max_age))
    /\ final_papers = <<merged_papers[1]>>

\* C8: the output of prune_old_papers is a subsequence of its input, so the
\* pruning of a list ordered by published descending is ordered so too.
C8_PruneKeepsOrder ==
    pc = "pruned" =>
        /\ IsSubseq(final_papers, merged_papers)
        /\ SortedDesc(merged_papers) => SortedDesc(final_papers)

C8_Witness ==
    /\ pc = "pruned"
    /\ Len(merged_papers) = 2
    /\ StrLess(merged_papers[2].published, merged_papers[1].published)
    /\ final_papers = merged_papers

(***************************************************************************)
(* C10: main (Spec)                                                        *)
(***************************************************************************)
MainSteps == <<"load", "fetch", "merge", "prune", "persist", "render">>

IsStep(x) == \E i \in 1..Len(MainSteps) : MainSteps[i] = x

\* the steps of a log, without what load and save print
StepsOf(l) == SelectSeq(l, IsStep)

IsPrefix(a, b) == Len(a) <= Len(b) /\ SubSeq(b, 1, Len(a)) = a

\* the database file that holds exactly the papers of a list
Stored(papers) ==
    [state |-> "ok", data |-> [i \in 1..Len(papers) |-> to_dict(papers[i])]]

\* C10 as stated: a run that has ended has taken the six steps in order and
\* has replaced the store by the pruned merge result.
C10_Original ==
    pc = "done" =>
        /\ StepsOf(log) = MainSteps
        /\ store = Stored(final_papers)

\* C10, amended: the steps of a run happen in the order load, fetch, merge,
\* prune, persist, render; the store is consulted by the load step alone,
\* once, before any fetch; it changes in the persist step alone, once, after
\* prune: a save that succeeds replaces the whole store by the pruned merge
\* result, a save that fails is swallowed and leaves the store as it was or
\* cut short, and the run goes on to render.
C10_Step ==
    /\ IsPrefix(StepsOf(log'), MainSteps)
    /\ pc' = "done" => StepsOf(log') = MainSteps
    /\ existing_papers' # existing_papers =>
          \/ /\ StepsOf(log') = <<"load">>
             /\ existing_papers' = load_papers_database(store, TRUE)
          \/ log' = <<>>
    /\ store' # store => StepsOf(log') = SubSeq(MainSteps, 1, 5) /\ log' # log
    /\ (log' # log /\ log' # <<>> /\ log'[Len(log')] = "saved") =>
          store' = Stored(final_papers)
    /\ (log' # log /\ log' # <<>> /\ log'[Len(log')] = "save_error") =>
          /\ store' \in {store, [state |-> "corrupt", data |-> <<>>]}
          /\ pc' = "saved"

C10_RunOrder == [][C10_Step]_vars

C10_Witness ==
    /\ pc = "done"
    /\ log = <<"load", "loaded", "fetch", "merge", "prune", "persist", "saved",
               "render">>
    /\ existing_papers # <<>>
    /\ Len(final_papers) = 2
    /\ final_papers # existing_papers
    /\ store = Stored(final_papers)

(***************************************************************************)
(* C11, C12: search_arxiv and fetch_papers_from_query (Spec)               *)
(***************************************************************************)
\* the cutoffs search_arxiv can compute in the current run
StartDates == {clock - timedelta(days_back) : clock \in ClockReadings}

\* the entries of a feed that parse and are not older than the cutoff
KeptEntries(entries, start) ==
    SelectSeq(entries,
              LAMBDA e : e.valid /\ published_date(e.paper) >= start)

InLog(x) == \E i \in 1..Len(log) : log[i] = x

\* C11: a query whose request fails or whose response does not parse gives
\* no records; of a feed that parses, the entries that raise are skipped and
\* no other entry is lost with them; after a query the next author query can
\* run; what reaches merge are complete records of the feed; the run ends
\* with all its steps taken and the page written with its heading.
C11_SkipAndContinue ==
    /\ pc = "loaded" =>
          \A r \in Responses, start \in StartDates :
             LET papers == fetch_papers_from_query(r, start)
                 kept == KeptEntries(r.entries, start)
             IN  /\ r.status # "ok" => papers = <<>>
                 /\ r.status = "ok" =>
                       papers = [i \in 1..Len(kept) |-> ParseEntry(kept[i].paper)]
    /\ pc = "authors" => ENABLED SearchAuthor
    /\ pc \in {"fetched", "merged_main"} =>
          \A i \in 1..Len(new_papers) :
             \E fields \in FeedRecords : new_papers[i] = ParseEntry(fields)
    /\ pc = "done" =>
          /\ StepsOf(log) = MainSteps
          /\ page.state = "ok"
          /\ \E i \in 1..Len(page.data) : page.data[i] = Heading

\* a run in which one query failed and the other gave a paper has ended
C11_Witness ==
    /\ pc = "done"
    /\ InLog("http_error")
    /\ new_papers # <<>>
    /\ page.state = "ok"
    /\ page.data[1] = Heading

\* C12: the cutoff is the clock reading of the call less days_back days and
\* stays the same through the author queries; every record a query returns,
\* and every record search_arxiv returns, is published at or after it, and a
\* query returns as many records as its feed has parsed entries at or after
\* it.
C12_PublishedSinceStart ==
    /\ pc \in {"authors", "fetched"} =>
          start_date = now - timedelta(days_back)
    /\ pc = "authors" =>
          /\ \A i \in 1..Len(all_papers) :
                published_date(all_papers[i]) >= start_date
          /\ \A r \in Responses :
                LET papers == fetch_papers_from_query(r, start_date)
                IN  /\ \A i \in 1..Len(papers) :
                          published_date(papers[i]) >= start_date
                    /\ Len(papers) = Len(KeptEntries(r.entries, start_date))
    /\ pc = "fetched" =>
          \A i \in 1..Len(new_papers) :
             published_date(new_papers[i]) >= start_date

\* the search has returned a paper published exactly at the cutoff, and the
\* feed has a paper from before the cutoff
C12_Witness ==
    /\ pc = "fetched"
    /\ Len(new_papers) = 1
    /\ published_date(new_papers[1]) = start_date
    /\ \E r \in FeedRecords : published_date(r) < start_date

(***************************************************************************)
(* C13: generate_html (Spec)                                               *)
(***************************************************************************)
IsArticle(element) == element.tag = "article"

IsPlaceholder(element) == element.tag = "no-papers"

\* C13: the page written for no papers has the placeholder block and no
\* article; the page written for some papers has no placeholder block and
\* one article per paper, in the order of the papers.
C13_PlaceholderOrArticles ==
    pc = "done" =>
        LET articles == SelectSeq(page.data, IsArticle)
            blocks == SelectSeq(page.data, IsPlaceholder)
        IN  /\ final_papers = <<>> => articles = <<>> /\ Len(blocks) = 1
            /\ final_papers # <<>> =>
                  /\ blocks = <<>>
                  /\ Len(articles) = Len(final_papers)
                  /\ \A i \in 1..Len(final_papers) :
                        articles[i].arxiv_id = final_papers[i].arxiv_id

C13_Witness ==
    /\ pc = "done"
    /\ Len(final_papers) = 2
    /\ Len(SelectSeq(page.data, IsArticle)) = 2
    /\ page.data[2].arxiv_id = final_papers[1].arxiv_id
    /\ page.data[3].arxiv_id = final_papers[2].arxiv_id

\* the page written for no papers
C13_WitnessEmpty ==
    /\ pc = "done"
    /\ final_papers = <<>>
    /\ page.data = <<Heading, Placeholder, Footer>>

(***************************************************************************)
(* C17: the store over the runs of main (Spec)                             *)
(***************************************************************************)
\* a record of the store has the id and the published value of d
InStore(d) ==
    \E i \in 1..Len(store.data) :
       /\ store.data[i].arxiv_id = d.arxiv_id
       /\ store.data[i].published = d.published

\* C17: after a run whose save succeeded the store has no two records of one
\* id, is in descending order of published, and every record of it is
\* published at or after the clock reading of the run's prune less max_age
\* days; a record prune dropped in this run or in an earlier run under the
\* same max_age is not in the store under its published value.
C17_StoreRetention ==
    (pc \in {"saved", "done"} /\ InLog("saved")) =>
        /\ store.state = "ok"
        /\ UniqueIds(store.data)
        /\ SortedDesc(store.data)
        /\ \A i \in 1..Len(store.data) :
              published_date(store.data[i]) >= now - timedelta(max_age)
        /\ \A d \in dropped \cup NotIn(merged_papers, final_papers) :
              ~InStore(d)

\* a record dropped in an earlier run was fetched again, dropped again, and
\* the store written by the run holds another record
C17_Witness ==
    /\ pc = "done"
    /\ InLog("saved")
    /\ store.data # <<>>
    /\ \E d \in dropped :
          /\ \E i \in 1..Len(new_papers) :
                /\ new_papers[i].arxiv_id = d.arxiv_id
                /\ new_papers[i].published = d.published
          /\ \A i \in 1..Len(existing_papers) :
                existing_papers[i].arxiv_id # d.arxiv_id

(***************************************************************************)
(* C18: the records through load, merge, prune and save (Spec)             *)
(***************************************************************************)
\* the record is one of the list
In(record, papers) == \E i \in 1..Len(papers) : papers[i] = record

\* C18: the papers loaded are the records of the store, field for field;
\* every merged paper is a loaded or a fetched paper; every paper prune
\* keeps is a merged paper; a save that succeeds writes the kept papers,
\* each of them a loaded or a fetched paper; a stored record is a paper as
\* it was fetched, its title and abstract not processed; the page has the
\* processed title and abstract of the papers whose stored text is as
\* fetched.
C18_RecordsUnaltered ==
    /\ (pc \in {"loaded", "authors", "fetched", "merged_main", "pruned_main"}
        /\ InLog("loaded")) =>
          existing_papers = store.data
    /\ pc \in {"merged_main", "pruned_main", "saved", "done"} =>
          \A i \in 1..Len(merged_papers) :
             In(merged_papers[i], existing_papers \o new_papers)
    /\ pc \in {"pruned_main", "saved", "done"} =>
          \A i \in 1..Len(final_papers) : In(final_papers[i], merged_papers)
    /\ (pc \in {"saved", "done"} /\ InLog("saved")) =>
          /\ store.data = final_papers
          /\ \A i \in 1..Len(store.data) :
                In(store.data[i], existing_papers \o new_papers)
    /\ \A i \in 1..Len(store.data) :
          \E fields \in FeedRecords : store.data[i] = ParseEntry(fields)
    /\ (pc = "done" /\ InLog("saved")) =>
          \A i \in 1..Len(store.data) :
             /\ page.data[i + 1].title = Processed[store.data[i].title]
             /\ page.data[i + 1].abstract = Processed[store.data[i].abstract]

\* a run has stored a paper it loaded and a paper it fetched; the page has
\* their processed text, the store their text as fetched
C18_Witness ==
    /\ pc = "done"
    /\ InLog("loaded")
    /\ InLog("saved")
    /\ Len(store.data) = 2
    /\ \E i, j \in 1..2 :
          /\ In(store.data[i], existing_papers)
          /\ ~In(store.data[i], new_papers)
          /\ In(store.data[j], new_papers)
          /\ ~In(store.data[j], existing_papers)
    /\ page.data[2].title # store.data[1].title
    /\ page.data[3].abstract # store.data[2].abstract

(***************************************************************************)
(* C19: main with a store that cannot be loaded or saved (Spec)            *)
(***************************************************************************)
\* C19: a store that is missing or cannot be read or parsed loads as no
\* papers and the run goes on; when such a run saves, the store holds the
\* fetched papers that survive prune and nothing else; when the save of a
\* run fails the run goes on, the next run loads what this run loaded, and
\* the page is written from the pruned list of this run.
C19_LoadOrSaveFails ==
    /\ (pc # "start" /\ (InLog("not_found") \/ InLog("load_error"))) =>
          existing_papers = <<>>
    /\ (pc \in {"saved", "done"} /\ InLog("saved")
        /\ (InLog("not_found") \/ InLog("load_error"))) =>
          /\ store = Stored(final_papers)
          /\ \A i \in 1..Len(final_papers) :
                \E j \in 1..Len(new_papers) : final_papers[i] = new_papers[j]
    /\ (pc \in {"saved", "done"} /\ InLog("save_error")
        /\ (InLog("loaded") \/ InLog("not_found"))) =>
          load_papers_database(store, TRUE) = existing_papers
    /\ pc = "done" =>
          /\ StepsOf(log) = MainSteps
          /\ page = [state |-> "ok", data |-> generate_html(final_papers)]

\* a run that loaded papers has ended after a save that failed while
\* writing: the store is cut short and the page is written
C19_Witness ==
    /\ pc = "done"
    /\ InLog("loaded")
    /\ InLog("save_error")
    /\ existing_papers # <<>>
    /\ store.state = "corrupt"
    /\ page = [state |-> "ok", data |-> generate_html(final_papers)]

(***************************************************************************)
(* C14, C15: process_latex_text (SpecLatex)                                *)
(***************************************************************************)
\* the characters of part are in whole, next to each other and in order
Occurs(part, whole) == \E j \in 1..Len(whole) : StartsWith(whole, j, part)

\* C14: every command of the text that is no Greek, accent or formatting
\* command is in the result as it was written.
C14_UnknownCommandsKept ==
    pc = "latex_out" =>
        \A i \in 1..Len(tokens) :
           tokens[i] \in UnknownCommands => Occurs(tokens[i], processed)

\* the text \cdot has been processed: the result is d, a combining cedilla,
\* o, t
C14_Witness ==
    /\ pc = "latex_out"
    /\ tokens = <<<<"\\", "c", "d", "o", "t">>>>
    /\ processed = <<"d", "U+0327", "o", "t">>

\* C15: for a text of plain words, Greek commands, formatting commands with
\* one argument and bare URLs, processing the result again gives the result.
C15_Idempotent ==
    (pc = "latex_again" /\ \A i \in 1..Len(tokens) : tokens[i] \in CommonTokens)
        => reprocessed = processed

\* a bare URL has been processed twice: the text of the link is a link again
C15_Witness ==
    /\ pc = "latex_again"
    /\ tokens = <<<<"h", "t", "t", "p", ":", "/", "/", "a", ".", "b">>>>
    /\ processed = UrlRule.pre \o tokens[1] \o UrlMiddle \o tokens[1] \o UrlRule.post
    /\ reprocessed = UrlRule.pre \o tokens[1] \o UrlMiddle \o processed \o UrlRule.post

(***************************************************************************)
(* C16: merge_papers (SpecMerge)                                           *)
(***************************************************************************)
IdsOf(s) == {s[i].arxiv_id : i \in 1..Len(s)}

\* C16: with unique existing ids, the result's record of an id has an
\* updated value at least that of every existing and every new record of
\* the id, however often and in whatever order the new list repeats the id,
\* and the ids of the result are those of the existing and the new list.
C16_PrefersLatest ==
    (pc = "merged" /\ UniqueIds(existing_papers)) =>
        /\ IdsOf(merged_papers) = IdsOf(existing_papers) \cup IdsOf(new_papers)
        /\ \A m \in 1..Len(merged_papers) :
              /\ \A e \in 1..Len(existing_papers) :
                    existing_papers[e].arxiv_id = merged_papers[m].arxiv_id
                    => merged_papers[m].updated >= existing_papers[e].updated
              /\ \A n \in 1..Len(new_papers) :
                    new_papers[n].arxiv_id = merged_papers[m].arxiv_id
                    => merged_papers[m].updated >= new_papers[n].updated

C16_Witness ==
    /\ pc = "merged"
    /\ Len(existing_papers) = 1
    /\ Len(new_papers) = 2
    /\ new_papers[1].arxiv_id = existing_papers[1].arxiv_id
    /\ new_papers[2].arxiv_id = existing_papers[1].arxiv_id
    /\ existing_papers[1].updated < new_papers[2].updated
    /\ new_papers[2].updated < new_papers[1].updated
    /\ merged_papers = <<new_papers[1]>>

====
